---- MODULE Spec2Model ----
(***************************************************************************)
(* Yiddish syllabification and hyphenation (ibleaman/Yiddish-hyphenation). *)
(*                                                                         *)
(* A Python string is modelled as a sequence of code points.  A Hebrew     *)
(* code point is written as its four hex digits ("05D0" is alef), an ASCII *)
(* character as itself ("-", " ", "j", "'").                               *)
(*                                                                         *)
(*   05D0 alef   05D1 beys   05D2 giml   05D3 daled  05D4 hey   05D5 vov   *)
(*   05D6 zayen  05D7 khes   05D8 tes    05D9 yud    05DA/05DB khof        *)
(*   05DC lamed  05DD/05DE mem  05DF/05E0 nun  05E1 samekh  05E2 ayin      *)
(*   05E3/05E4 pey  05E5/05E6 tsadek  05E7 kuf  05E8 reysh  05E9 shin      *)
(*   05EA tof    05F0 tsvey vovn   05F1 vov yud   05F2 tsvey yudn          *)
(*   05B4 khirik 05B7 pasekh 05B8 komets 05BC dagesh 05BF rofe 05C2 sin dot*)
(*   FB1D khirik yud  FB1F pasekh tsvey yudn  FB2E pasekh alef             *)
(*   FB2F komets alef FB35 melupm vov  FB3B kof  FB44 pey  FB4E fey        *)
(*   FB4C veys   FB2B sin    FB4A tof with dagesh                          *)
(*   0146, 0145, 013C: the Latin placeholders for syllabic nun, final nun  *)
(*   and lamed                                                             *)
(***************************************************************************)
EXTENDS Integers, Sequences, FiniteSets, TLC

VARIABLES
    pc,                       \* position in the script being run
    input,                    \* the word a word-level run started from
    word,                     \* the loop variable `word`
    system,                   \* args.system
    unique_words,             \* yiddish_hyphenation_latex.py line 49
    words_prefixes_separated, \* line 103
    hyphenated_words,         \* line 118
    final_hyphenated_words,   \* line 132
    yiddish,                  \* the patterns dict held by the caller
    exc,                      \* the exception that ended the script, or "none"
    all_onsets,               \* generate_yiddish_patterns: line 204
    k                         \* generate_yiddish_patterns: index of the loop at line 205

vars == <<pc, input, word, system, unique_words, words_prefixes_separated,
          hyphenated_words, final_hyphenated_words, yiddish, exc, all_onsets, k>>

(***************************************************************************)
(* Python string primitives                                                *)
(***************************************************************************)

\* str.startswith(p)
StartsWith(s, p) == Len(p) <= Len(s) /\ SubSeq(s, 1, Len(p)) = p

\* str.endswith(p)
EndsWith(s, p) == Len(p) <= Len(s) /\ SubSeq(s, Len(s) - Len(p) + 1, Len(s)) = p

\* s[n:]
Drop(s, n) == SubSeq(s, n + 1, Len(s))

\* x in s, for a one-character x
Contains(s, c) == \E i \in 1..Len(s) : s[i] = c

\* re.sub(pat, rep, s) for a pattern of literal characters: the leftmost
\* non-overlapping occurrences of pat, scanning left to right
RECURSIVE ReSub(_, _, _)
ReSub(pat, rep, s) ==
    IF Len(s) < Len(pat) THEN s
    ELSE IF StartsWith(s, pat) THEN rep \o ReSub(pat, rep, Drop(s, Len(pat)))
    ELSE <<Head(s)>> \o ReSub(pat, rep, Tail(s))

\* for letter in combinations: string = re.sub(letter[0], letter[1], string)
RECURSIVE ApplySubs(_, _)
ApplySubs(table, s) ==
    IF table = <<>> THEN s
    ELSE ApplySubs(Tail(table), ReSub(Head(table)[1], Head(table)[2], s))

\* ''.join(parts)
RECURSIVE Concat(_)
Concat(parts) ==
    IF parts = <<>> THEN <<>>
    ELSE IF Len(parts) = 1 THEN parts[1]
    ELSE LET m == Len(parts) \div 2
         IN  Concat(SubSeq(parts, 1, m)) \o Concat(SubSeq(parts, m + 1, Len(parts)))

\* ' '.join(parts)
RECURSIVE JoinSpace(_)
JoinSpace(parts) ==
    IF parts = <<>> THEN <<>>
    ELSE IF Len(parts) = 1 THEN Head(parts)
    ELSE Head(parts) \o <<" ">> \o JoinSpace(Tail(parts))

\* the elements of a list, as a set
Range(s) == {s[i] : i \in DOMAIN s}

(***************************************************************************)
(* Canonicalizer                                                           *)
(***************************************************************************)

\* the table of combine_chars, in its order
combine_combinations == <<
    << <<"05D0", "05B7">>, <<"FB2E">> >>,
    << <<"05D0", "05B8">>, <<"FB2F">> >>,
    << <<"05D1", "05BF">>, <<"FB4C">> >>,
    << <<"05D5", "05BC">>, <<"FB35">> >>,
    << <<"05D5", "05D5">>, <<"05F0">> >>,
    << <<"05D5", "05D9">>, <<"05F1">> >>,
    << <<"05D9", "05B4">>, <<"FB1D">> >>,
    << <<"05D9", "05D9">>, <<"05F2">> >>,
    << <<"05F2", "05B7">>, <<"FB1F">> >>,
    << <<"05DB", "05BC">>, <<"FB3B">> >>,
    << <<"05E4", "05BC">>, <<"FB44">> >>,
    << <<"05E4", "05BF">>, <<"FB4E">> >>,
    << <<"05E9", "05C2">>, <<"FB2B">> >>,
    << <<"05EA", "05BC">>, <<"FB4A">> >> >>

combine_chars(string) == ApplySubs(combine_combinations, string)

\* the table of separate_chars, in its order
separate_combinations == <<
    << <<"FB2E">>, <<"05D0", "05B7">> >>,
    << <<"FB2F">>, <<"05D0", "05B8">> >>,
    << <<"FB4C">>, <<"05D1", "05BF">> >>,
    << <<"FB35">>, <<"05D5", "05BC">> >>,
    << <<"FB1D">>, <<"05D9", "05B4">> >>,
    << <<"FB1F">>, <<"05F2", "05B7">> >>,
    << <<"FB3B">>, <<"05DB", "05BC">> >>,
    << <<"FB44">>, <<"05E4", "05BC">> >>,
    << <<"FB4E">>, <<"05E4", "05BF">> >>,
    << <<"FB2B">>, <<"05E9", "05C2">> >>,
    << <<"FB4A">>, <<"05EA", "05BC">> >> >>

separate_chars(string) == ApplySubs(separate_combinations, string)

(***************************************************************************)
(* Phonological preprocessor                                               *)
(***************************************************************************)

\* lines 77-84: the eight substitutions for consonantal yud, in their order
consonant_j_subs == <<
    << <<"05D9", "FB2E">>,         <<"j", "FB2E">> >>,
    << <<"05D9", "FB2F">>,         <<"j", "FB2F">> >>,
    << <<"05D9", "05D5">>,         <<"j", "05D5">> >>,
    << <<"05D9", "05E2">>,         <<"j", "05E2">> >>,
    << <<"05D9", "05D9", "05B4">>, <<"j", "FB1D">> >>,
    << <<"05D9", "05F2", "05B7">>, <<"j", "FB1F">> >>,
    << <<"05D9", "05F2">>,         <<"j", "05F2">> >>,
    << <<"05D9", "05F1">>,         <<"j", "05F1">> >> >>

\* the vowel alternatives of the lookbehind and lookahead of lines 88-90
sonorant_context == {"FB2E", "05E2", "05D9", "FB2F", "05D5", "05F2", "FB1F",
                     "05F1", "FB1D", "FB35"}

\* \s
Whitespace == {" ", "\t", "\n", "\r", "\f"}

\* re.sub(r'(?<!\s|V...)L(?!V...)', rep, s) of lines 88 and 90, and, with
\* ahead = FALSE, of line 89: every match is decided on the string the pass
\* began with, and a lookbehind at the start of the string finds nothing
syllabic_sub(s, letter, rep, ahead) ==
    [i \in 1..Len(s) |->
        IF /\ s[i] = letter
           /\ ~(i > 1 /\ s[i - 1] \in (Whitespace \cup sonorant_context))
           /\ (ahead => ~(i < Len(s) /\ s[i + 1] \in sonorant_context))
        THEN rep ELSE s[i]]

\* lines 93-96
undo_word_initial(s) ==
    IF StartsWith(s, <<"0146">>) THEN <<"05E0">> \o Drop(s, 1)
    ELSE IF StartsWith(s, <<"013C">>) THEN <<"05DC">> \o Drop(s, 1)
    ELSE s

\* ' '.join(list(string))
space_join_chars(s) == JoinSpace([i \in 1..Len(s) |-> <<s[i]>>])

replace_consonant_j_syllabic_nl(string) ==
    LET s1 == ApplySubs(consonant_j_subs, string)
        s2 == syllabic_sub(s1, "05E0", "0146", TRUE)
        s3 == syllabic_sub(s2, "05DF", "0145", FALSE)
        s4 == syllabic_sub(s3, "05DC", "013C", TRUE)
    IN  space_join_chars(undo_word_initial(s4))

(***************************************************************************)
(* Onset inventory builder                                                 *)
(***************************************************************************)

\* lines 109-138; every value is written with the code points of the source
transliterations == [
    A  |-> << <<"05D0", "05B7">> >>,
    Ay |-> << <<"05F2", "05B7">> >>,
    B  |-> << <<"05D1">> >>,
    D  |-> << <<"05D3">> >>,
    E  |-> << <<"05E2">> >>,
    Ey |-> << <<"05F2">> >>,
    F  |-> << <<"05E4", "05BF">> >>,
    G  |-> << <<"05D2">> >>,
    H  |-> << <<"05D4">> >>,
    I  |-> << <<"05D9">>, <<"05D9", "05B4">> >>,
    K  |-> << <<"05E7">>, <<"05DB", "05BC">> >>,
    Kh |-> << <<"05DB">>, <<"05D7">> >>,
    L  |-> << <<"05DC">> >>,
    M  |-> << <<"05DE">> >>,
    N  |-> << <<"05E0">> >>,
    O  |-> << <<"05D0", "05B8">> >>,
    Oy |-> << <<"05F1">> >>,
    P  |-> << <<"05E4", "05BC">> >>,
    R  |-> << <<"05E8">> >>,
    S  |-> << <<"05E1">>, <<"05E9", "05C2">>, <<"05EA">> >>,
    Sh |-> << <<"05E9">> >>,
    T  |-> << <<"05D8">>, <<"05EA", "05BC">> >>,
    Ts |-> << <<"05E6">> >>,
    U  |-> << <<"05D5">>, <<"05D5", "05BC">> >>,
    V  |-> << <<"05F0">>, <<"05D1", "05BF">> >>,
    Y  |-> << <<"j">> >>,
    Z  |-> << <<"05D6">> >>,
    Zh |-> << <<"05D6", " ", "05E9">> >> ]

\* lines 141-155
vowels == <<
    <<"FB2E">>, <<"05E2">>, <<"05D9">>, <<"FB2F">>, <<"05D5">>, <<"05F2">>,
    <<"FB1F">>, <<"05F1">>, <<"FB1D">>, <<"FB35">>,
    <<"0146">>, <<"0145">>, <<"013C">> >>

\* lines 157-190
consonants == <<
    <<"05D0">>, <<"05D1">>, <<"FB4C">>, <<"05D2">>, <<"05D3">>, <<"05D4">>,
    <<"05F0">>, <<"05D6">>, <<"05D7">>, <<"05D8">>, <<"j">>, <<"FB3B">>,
    <<"05DB">>, <<"05DA">>, <<"05DC">>, <<"05DE">>, <<"05DD">>, <<"05E0">>,
    <<"05DF">>, <<"05E1">>, <<"05E2">>, <<"FB44">>, <<"FB4E">>, <<"05E3">>,
    <<"05E6">>, <<"05E5">>, <<"05E7">>, <<"05E8">>, <<"05E9">>, <<"FB2B">>,
    <<"FB4A">>, <<"05EA">> >>

\* lines 194-201: the onset skeletons, split(' ') applied
onsets == <<
    <<"P", "T">>, <<"P", "L">>, <<"P", "R">>, <<"P", "N">>, <<"P", "S">>,
    <<"P", "Sh">>, <<"P", "Kh">>, <<"P", "L">>, <<"P", "K">>, <<"T", "R">>,
    <<"T", "M">>, <<"B", "D">>, <<"B", "L">>, <<"B", "R">>, <<"B", "G">>,
    <<"D", "L">>, <<"D", "N">>, <<"T", "N">>, <<"T", "L">>, <<"T", "K">>,
    <<"T", "V">>, <<"T", "F">>, <<"T", "Kh">>, <<"D", "R">>, <<"D", "V">>,
    <<"K", "N">>, <<"K", "T">>, <<"K", "D">>, <<"K", "L">>, <<"K", "S">>,
    <<"K", "R">>, <<"K", "V">>, <<"G", "N">>, <<"G", "L">>, <<"G", "R">>,
    <<"G", "V">>, <<"G", "Z">>, <<"F", "L">>, <<"F", "R">>, <<"V", "L">>,
    <<"V", "R">>, <<"S", "M">>, <<"S", "F">>, <<"S", "V">>, <<"S", "N">>,
    <<"S", "T">>, <<"S", "D">>, <<"S", "K">>, <<"S", "P">>, <<"S", "Kh">>,
    <<"S", "R">>, <<"S", "L">>, <<"Z", "M">>, <<"Z", "N">>, <<"Z", "G">>,
    <<"Z", "R">>, <<"Z", "L">>, <<"Z", "B">>, <<"Sh", "M">>, <<"Sh", "V">>,
    <<"Sh", "F">>, <<"Sh", "N">>, <<"Sh", "T">>, <<"Sh", "P">>, <<"Sh", "K">>,
    <<"Sh", "Kh">>, <<"Sh", "R">>, <<"Sh", "L">>, <<"Sh", "T", "Sh">>,
    <<"Zh", "M">>, <<"Zh", "L">>, <<"Kh", "M">>, <<"Kh", "V">>, <<"Kh", "Sh">>,
    <<"Kh", "S">>, <<"Kh", "L">>, <<"Kh", "K">>, <<"Kh", "Ts">>, <<"Kh", "N">>,
    <<"Kh", "R">>, <<"Ts", "L">>, <<"Ts", "N">>, <<"Ts", "D">>, <<"Ts", "V">>,
    <<"T", "Sh", "V">>, <<"M", "R">>, <<"M", "L">>, <<"Sh", "P", "R">>,
    <<"Sh", "T", "R">>, <<"Sh", "K", "R">>, <<"Sh", "P", "L">>,
    <<"Sh", "K", "L">>, <<"S", "P", "R">>, <<"S", "T", "R">>, <<"S", "K", "R">>,
    <<"S", "P", "L">>, <<"S", "K", "L">>, <<"T", "Sh">>, <<"D", "Zh">> >>

\* itertools.product(*lists): the last position varies fastest
RECURSIVE product(_)
product(lists) ==
    IF lists = <<>> THEN << <<>> >>
    ELSE LET rest == product(Tail(lists))
             h    == Head(lists)
         IN  Concat([i \in 1..Len(h) |->
                        [j \in 1..Len(rest) |-> <<h[i]>> \o rest[j]]])

\* lines 206-208, for one skeleton: the list appended to all_onsets
expand_onset(phonemes) ==
    product([i \in 1..Len(phonemes) |-> transliterations[phonemes[i]]])

\* lines 209-211: flatten, then ' '.join each tuple
flatten_join(lists) ==
    LET flat == Concat(lists)
    IN  [i \in 1..Len(flat) |-> JoinSpace(flat[i])]

\* lines 214-215
append_null_and_consonants(joined) == joined \o << <<>> >> \o consonants

\* all_onsets after the first n iterations of the loop at line 205
expanded(n) == [i \in 1..n |-> expand_onset(onsets[i])]

\* the dict generate_yiddish_patterns() returns
generate_yiddish_patterns ==
    [consonants |-> consonants,
     vowels     |-> vowels,
     onsets     |-> append_null_and_consonants(flatten_join(expanded(Len(onsets))))]

(***************************************************************************)
(* Syllabifier                                                             *)
(***************************************************************************)

\* word.split(): the maximal runs of non-whitespace characters
RECURSIVE split_ws(_, _)
split_ws(s, cur) ==
    IF s = <<>> THEN (IF cur = <<>> THEN <<>> ELSE <<cur>>)
    ELSE IF Head(s) \in Whitespace
         THEN (IF cur = <<>> THEN <<>> ELSE <<cur>>) \o split_ws(Tail(s), <<>>)
         ELSE split_ws(Tail(s), Append(cur, Head(s)))

\* Where the consonants between two nuclei are cut: the coda keeps the first
\* `split` of them and the onset takes the rest, the longest suffix that is
\* a legal onset.  Before the first nucleus there is no legality check.
onset_split(language, internuclei, first) ==
    IF first THEN 0
    ELSE LET legal == {sp \in 0..Len(internuclei) :
                          \/ JoinSpace(Drop(internuclei, sp)) \in Range(language.onsets)
                          \/ sp = Len(internuclei)}
         IN  CHOOSE sp \in legal : \A t \in legal : sp <= t

\* The maximum-onset loop over the phonemes.  A syllable is the tuple
\* <<onset, nucleus, coda>>; a phoneme that is neither a vowel nor a
\* consonant ends the call with an error.
RECURSIVE syllabify_loop(_, _, _, _)
syllabify_loop(language, phonemes, syllables, internuclei) ==
    IF phonemes = <<>>
    THEN [ok |-> TRUE,
          syllables |->
             IF internuclei = <<>> THEN syllables
             ELSE IF syllables = <<>> THEN << <<internuclei, <<>>, <<>> >> >>
             ELSE LET n == Len(syllables)
                  IN  [syllables EXCEPT ![n][3] = @ \o internuclei]]
    ELSE LET phoneme == Head(phonemes) IN
         IF phoneme \in Range(language.vowels)
         THEN LET sp    == onset_split(language, internuclei, syllables = <<>>)
                  coda  == SubSeq(internuclei, 1, sp)
                  onset == Drop(internuclei, sp)
                  n     == Len(syllables)
                  prev  == IF n = 0 THEN syllables
                           ELSE [syllables EXCEPT ![n][3] = @ \o coda]
              IN  syllabify_loop(language, Tail(phonemes),
                                 Append(prev, <<onset, <<phoneme>>, <<>> >>), <<>>)
         ELSE IF phoneme \notin Range(language.consonants)
         THEN [ok |-> FALSE, syllables |-> <<>>]
         ELSE syllabify_loop(language, Tail(phonemes), syllables,
                             Append(internuclei, phoneme))

\* syllabifier.syllabify(language, word)
syllabify(language, w) == syllabify_loop(language, split_ws(w, <<>>), <<>>, <<>>)

\* the character class of the re.split of line 230: in the Python literal
\* the doubled backslash escapes the slash, so the class holds no backslash
split_punctuation == {".", "-", "/", "!", "?", "05BE", "201E", "201C", "201D",
                      "2032", "05F4", "2033", "\"", "'", ";"}

\* the list of line 232
punctuation_marks == {<<"\"">>, <<"'">>, <<".">>, <<"-">>, <<"\\">>, <<"/">>,
                      <<"!">>, <<"?">>, <<"05BE">>, <<"201E">>, <<"05F4">>,
                      <<"201C">>, <<"201D">>, <<"2032">>, <<"2033">>, <<";">>}

\* re.split('([...])', word): the pieces between the marks, with each mark
\* kept as a piece of its own
RECURSIVE re_split(_, _)
re_split(s, cur) ==
    IF s = <<>> THEN <<cur>>
    ELSE IF Head(s) \in split_punctuation
         THEN <<cur, <<Head(s)>> >> \o re_split(Tail(s), <<>>)
         ELSE re_split(Tail(s), Append(cur, Head(s)))

\* lines 237-243: every list of every syllable joined, and a hyphen after
\* each syllable
RECURSIVE join_syllables(_)
join_syllables(syllables) ==
    IF syllables = <<>> THEN <<>>
    ELSE LET syl == Head(syllables)
         IN  Concat(syl[1]) \o Concat(syl[2]) \o Concat(syl[3]) \o <<"-">>
             \o join_syllables(Tail(syllables))

\* lines 246-249
placeholder_subs == <<
    << <<"j">>,    <<"05D9">> >>,
    << <<"0146">>, <<"05E0">> >>,
    << <<"0145">>, <<"05DF">> >>,
    << <<"013C">>, <<"05DC">> >> >>

\* line 250 left out: the hyphen appended after the last syllable stays
keep_final_hyphen(result) == result

\* line 250: re.sub(r'\-$', '', result)
strip_final_hyphen(result) ==
    IF result # <<>> /\ result[Len(result)] = "-"
    THEN SubSeq(result, 1, Len(result) - 1) ELSE result

\* lines 237-250: the string built from the syllables of one subword
syllables_to_string(syllables) ==
    strip_final_hyphen(ApplySubs(placeholder_subs, join_syllables(syllables)))

\* list(subword)
chars_of(s) == [i \in 1..Len(s) |-> <<s[i]>>]

\* lines 231-256: the body of the loop, for one subword
subword_step(yiddish_patterns, subwords_syllabified, subword) ==
    IF subword \notin punctuation_marks
    THEN LET r == syllabify(yiddish_patterns, subword)
         IN  IF r.ok
             THEN Append(subwords_syllabified, syllables_to_string(r.syllables))
             ELSE chars_of(subword)
    ELSE Append(subwords_syllabified, subword)

RECURSIVE subword_loop(_, _, _)
subword_loop(yiddish_patterns, subwords_syllabified, subwords) ==
    IF subwords = <<>> THEN subwords_syllabified
    ELSE subword_loop(yiddish_patterns,
                      subword_step(yiddish_patterns, subwords_syllabified, Head(subwords)),
                      Tail(subwords))

add_syllable_boundaries(yiddish_patterns, w) ==
    Concat(subword_loop(yiddish_patterns, <<>>, re_split(w, <<>>)))

(***************************************************************************)
(* Hyphenation pipeline: yiddish_hyphenation_latex.py                      *)
(***************************************************************************)

\* lines 53-100, in table order
prefixes == <<
    <<"05D0", "05B7", "05D3", "05D5", "05E8", "05DB">>,
    <<"05D3", "05D5", "05E8", "05DB">>,
    <<"05D0", "05B7", "05D4", "05D9", "05E0">>,
    <<"05D0", "05B7", "05D4", "05E2", "05E8">>,
    <<"05D0", "05B7", "05F0", "05E2", "05E7">>,
    <<"05D0", "05F1", "05E1">>,
    <<"05D0", "05D5", "05DE">>,
    <<"05D0", "05D5", "05E0", "05D8", "05E2", "05E8">>,
    <<"05D0", "05F1", "05E4", "05BF">>,
    <<"05D0", "05B7", "05E0", "05D8", "05E7", "05E2", "05D2", "05E0">>,
    <<"05D0", "05B7", "05E7", "05E2", "05D2", "05E0">>,
    <<"05E7", "05E2", "05D2", "05E0">>,
    <<"05D0", "05D9", "05D1", "05E2", "05E8">>,
    <<"05D0", "05F2", "05B7", "05E0">>,
    <<"05D0", "05B8", "05E0">>,
    <<"05D0", "05B7", "05E0", "05D9", "05D3", "05E2", "05E8">>,
    <<"05D0", "05B8", "05E4", "05BC">>,
    <<"05D0", "05B7", "05E8", "05D0", "05B8", "05E4", "05BC">>,
    <<"05D0", "05B7", "05E8", "05F1", "05E1">>,
    <<"05D0", "05B7", "05E8", "05D5", "05DE">>,
    <<"05D0", "05B7", "05E8", "05F1", "05E4", "05BF">>,
    <<"05D0", "05B7", "05E8", "05D9", "05D1", "05E2", "05E8">>,
    <<"05D0", "05B7", "05E8", "05F2", "05B7", "05E0">>,
    <<"05D1", "05F2", "05B7">>,
    <<"05DE", "05D9", "05D8">>,
    <<"05E0", "05D0", "05B8", "05DB">>,
    <<"05E4", "05BF", "05D5", "05E0", "05D0", "05B7", "05E0", "05D3", "05E2", "05E8">>,
    <<"05E4", "05BF", "05D0", "05B7", "05E0", "05D0", "05B7", "05E0", "05D3", "05E2", "05E8">>,
    <<"05E4", "05BF", "05D0", "05B8", "05E8">>,
    <<"05E4", "05BF", "05D0", "05B8", "05E8", "05F1", "05E1">>,
    <<"05D0", "05B7", "05E4", "05BF", "05E2", "05E8">>,
    <<"05D0", "05B7", "05E4", "05BF", "05D9", "05E8">>,
    <<"05E4", "05BF", "05D9", "05E8">>,
    <<"05E6", "05D5", "05D6", "05D0", "05B7", "05DE", "05E2", "05E0">>,
    <<"05E6", "05D5", "05E0", "05F1", "05E4", "05BF">>,
    <<"05E6", "05D5", "05E8", "05D9", "05E7">>,
    <<"05E6", "05D5">>,
    <<"05E7", "05E8", "05D9", "05E7">>,
    <<"05E7", "05D0", "05B7", "05E8", "05D9", "05E7">>,
    <<"05E4", "05BF", "05D0", "05B7", "05E8", "05D1", "05F2", "05B7">>,
    <<"05D0", "05B7", "05E0", "05D8">>,
    <<"05D1", "05D0", "05B7">>,
    <<"05D2", "05E2">>,
    <<"05D3", "05E2", "05E8">>,
    <<"05E4", "05BF", "05D0", "05B7", "05E8">>,
    <<"05E6", "05E2">> >>

\* lines 105-115, for one word
split_prefix(w) ==
    IF ~(\E i \in DOMAIN prefixes : StartsWith(w, prefixes[i])) THEN w
    ELSE LET hits == {i \in DOMAIN prefixes :
                         StartsWith(w, prefixes[i]) /\ ~EndsWith(w, prefixes[i])}
         IN  IF hits = {} THEN w
             ELSE LET i == CHOOSE i \in hits : \A j \in hits : i <= j
                  IN  prefixes[i] \o <<"-">> \o Drop(w, Len(prefixes[i]))

\* the number of parameters of generate_yiddish_patterns
generate_yiddish_patterns_params == 0

\* a call of generate_yiddish_patterns with nargs positional arguments
call_generate_yiddish_patterns(nargs) ==
    IF nargs = generate_yiddish_patterns_params
    THEN [exc |-> "none", value |-> generate_yiddish_patterns]
    ELSE [exc |-> "TypeError", value |-> "unset"]

\* lines 121-124, for one word: four statements, each one applied to the
\* value the one before has computed
hyphenate_word(patterns, w) ==
    LET combined   == {combine_chars(w)}
        phonemes   == {replace_consonant_j_syllabic_nl(v) : v \in combined}
        hyphenated == {add_syllable_boundaries(patterns, v) : v \in phonemes}
        separated  == {separate_chars(v) : v \in hyphenated}
    IN  CHOOSE v \in separated : TRUE

\* the test of line 125 left out: every word is appended
keep_every_word(w) == TRUE

\* lines 125-126: whether the word is appended to hyphenated_words
keep_hyphenated(w) == Contains(w, "-")

\* s.index('-') and s.rindex('-'), 0-based
index_hyphen(s) == (CHOOSE i \in 1..Len(s) : s[i] = "-" /\ \A j \in 1..(i - 1) : s[j] # "-") - 1
rindex_hyphen(s) == (CHOOSE i \in 1..Len(s) : s[i] = "-" /\ \A j \in (i + 1)..Len(s) : s[j] # "-") - 1

\* s[:i] + s[i + 1:]
delete_at(s, i) == SubSeq(s, 1, i) \o Drop(s, i + 1)

\* x in word, for a string x
HasSubstring(s, x) == \E i \in 0..(Len(s) - Len(x)) : SubSeq(s, i + 1, i + Len(x)) = x

\* line 139
loshn_koydesh_marks == {<<"05D1", "05BF">>, <<"05D7">>, <<"05DB", "05BC">>,
                        <<"05E9", "05C2">>, <<"05EA", "05BC">>, <<"05EA">>}

\* lines 134-135
drop_short_lead(w) ==
    IF index_hyphen(combine_chars(w)) < 2 THEN delete_at(w, index_hyphen(w)) ELSE w

\* lines 136-138
drop_short_tail(w) ==
    IF Contains(w, "-")
    THEN (IF Len(Drop(combine_chars(w), rindex_hyphen(combine_chars(w)) + 1)) < 3
          THEN delete_at(w, rindex_hyphen(w)) ELSE w)
    ELSE w

\* lines 139-140
drop_loshn_koydesh(w) ==
    IF \E x \in loshn_koydesh_marks : HasSubstring(w, x)
    THEN ReSub(<<"-">>, <<>>, w) ELSE w

\* lines 134-140, for one word of hyphenated_words
post_filter(w) == drop_loshn_koydesh(drop_short_tail(drop_short_lead(w)))

\* [f(x) for x in list]
prefix_loop(ws) == [i \in 1..Len(ws) |-> split_prefix(ws[i])]
hyphenation_loop(patterns, ws) ==
    SelectSeq([i \in 1..Len(ws) |-> hyphenate_word(patterns, ws[i])], keep_hyphenated)
post_filter_loop(ws) == [i \in 1..Len(ws) |-> post_filter(ws[i])]

(***************************************************************************)
(* Bounds and input sets                                                   *)
(***************************************************************************)

MaxCanonLen == 4
MaxSylLen == 5
MaxFallbackLen == 5
MaxLetters == 3

\* all strings of at most n characters of the alphabet
StringsUpTo(alphabet, n) == UNION {[1..m -> alphabet] : m \in 0..n}

\* raw words for the canonicalizer and the preprocessor: vov, yud, alef, ayin,
\* the marks khirik and pasekh, and the digraphs tsvey yudn and vov yud
CanonChars == {"05D5", "05D9", "05B4", "05B7", "05D0", "05E2", "05F2", "05F1"}

\* words for the syllabifier: shin, tes, nun, ayin and an apostrophe
SylChars == {"05E9", "05D8", "05E0", "05E2", "'"}

\* words with an unrecognized character: daled, ayin, an apostrophe and "x"
FallbackChars == {"05D3", "05E2", "'", "x"}

\* the letters that follow the optional prefix of a document's word: giml,
\* ayin and tof
PipelineLetters == {<<"05D2">>, <<"05E2">>, <<"05EA">>}

PipelineWords ==
    {p \o Concat(t) : p \in {<<>>} \cup Range(prefixes),
                      t \in StringsUpTo(PipelineLetters, MaxLetters)}

(***************************************************************************)
(* yiddish_syllable_boundaries.py, lines 269-277: one word of the word list *)
(***************************************************************************)

WordVars == <<system, unique_words, words_prefixes_separated, hyphenated_words,
              final_hyphenated_words, exc, all_onsets, k>>

InitWord(words) ==
    /\ input \in words
    /\ word = input
    /\ pc = "raw"
    /\ system = "none"
    /\ unique_words = <<>>
    /\ words_prefixes_separated = <<>>
    /\ hyphenated_words = <<>>
    /\ final_hyphenated_words = <<>>
    /\ yiddish = "unset"
    /\ exc = "none"
    /\ all_onsets = <<>>
    /\ k = 0

\* line 270
CombineChars ==
    /\ pc = "raw"
    /\ word' = combine_chars(word)
    /\ pc' = "combined"
    /\ UNCHANGED <<input, yiddish>>
    /\ UNCHANGED WordVars

\* line 271
ReplaceConsonantJ ==
    /\ pc = "combined"
    /\ word' = replace_consonant_j_syllabic_nl(word)
    /\ pc' = "preprocessed"
    /\ UNCHANGED <<input, yiddish>>
    /\ UNCHANGED WordVars

\* line 273: generate_yiddish_patterns()
LoadPatterns ==
    /\ pc = "preprocessed"
    /\ LET r == call_generate_yiddish_patterns(0)
       IN  /\ yiddish' = r.value
           /\ exc' = r.exc
           /\ pc' = IF r.exc = "none" THEN "patterns" ELSE "raised"
    /\ UNCHANGED <<input, word, system, unique_words, words_prefixes_separated,
                   hyphenated_words, final_hyphenated_words, all_onsets, k>>

\* line 275
AddSyllableBoundaries ==
    /\ pc = "patterns"
    /\ word' = add_syllable_boundaries(yiddish, word)
    /\ pc' = "syllabified"
    /\ UNCHANGED <<input, yiddish>>
    /\ UNCHANGED WordVars

\* line 276
SeparateChars ==
    /\ pc = "syllabified"
    /\ word' = separate_chars(word)
    /\ pc' = "separated"
    /\ UNCHANGED <<input, yiddish>>
    /\ UNCHANGED WordVars

\* separate_chars applied to the result of combine_chars
RoundTripSeparate ==
    /\ pc = "combined"
    /\ word' = separate_chars(word)
    /\ pc' = "roundtrip"
    /\ UNCHANGED <<input, yiddish>>
    /\ UNCHANGED WordVars

\* the canonicalizer and the preprocessor on raw words
InitCanon == InitWord(StringsUpTo(CanonChars, MaxCanonLen))
NextCanon == CombineChars \/ RoundTripSeparate \/ ReplaceConsonantJ
SpecCanon == InitCanon /\ [][NextCanon]_vars

\* the word loop of the syllabifier script
NextWord == CombineChars \/ ReplaceConsonantJ \/ LoadPatterns
            \/ AddSyllableBoundaries \/ SeparateChars
InitSyl == InitWord(StringsUpTo(SylChars, MaxSylLen))
SpecSyl == InitSyl /\ [][NextWord]_vars

InitFallback == InitWord(StringsUpTo(FallbackChars, MaxFallbackLen))
SpecFallback == InitFallback /\ [][NextWord]_vars

(***************************************************************************)
(* generate_yiddish_patterns, lines 204-224, statement by statement        *)
(***************************************************************************)

GenVars == <<input, word, unique_words, words_prefixes_separated,
             hyphenated_words, final_hyphenated_words, exc>>

InitGen ==
    /\ pc = "expand"
    /\ system \in {"jacobs", "viler"}
    /\ all_onsets = <<>>
    /\ k = 0
    /\ yiddish = "unset"
    /\ input = <<>>
    /\ word = <<>>
    /\ unique_words = <<>>
    /\ words_prefixes_separated = <<>>
    /\ hyphenated_words = <<>>
    /\ final_hyphenated_words = <<>>
    /\ exc = "none"

\* lines 205-208: one iteration of the loop over the skeletons
ExpandOnset ==
    /\ pc = "expand"
    /\ k < Len(onsets)
    /\ all_onsets' = Append(all_onsets, expand_onset(onsets[k + 1]))
    /\ k' = k + 1
    /\ UNCHANGED <<pc, system, yiddish>>
    /\ UNCHANGED GenVars

\* lines 209-211
FlattenJoin ==
    /\ pc = "expand"
    /\ k = Len(onsets)
    /\ all_onsets' = flatten_join(all_onsets)
    /\ pc' = "joined"
    /\ UNCHANGED <<k, system, yiddish>>
    /\ UNCHANGED GenVars

\* lines 214-224
ReturnPatterns ==
    /\ pc = "joined"
    /\ all_onsets' = append_null_and_consonants(all_onsets)
    /\ yiddish' = [consonants |-> consonants, vowels |-> vowels,
                   onsets |-> all_onsets']
    /\ pc' = "returned"
    /\ UNCHANGED <<k, system>>
    /\ UNCHANGED GenVars

NextGen == ExpandOnset \/ FlattenJoin \/ ReturnPatterns
SpecGen == InitGen /\ [][NextGen]_vars

(***************************************************************************)
(* yiddish_hyphenation_latex.py, lines 45-142                              *)
(***************************************************************************)

\* the state after line 49, for a document of one word
InitPipeline ==
    /\ pc = "tokenized"
    /\ system \in {"jacobs", "viler"}
    /\ unique_words \in {<<w>> : w \in PipelineWords}
    /\ words_prefixes_separated = <<>>
    /\ hyphenated_words = <<>>
    /\ final_hyphenated_words = <<>>
    /\ yiddish = "unset"
    /\ exc = "none"
    /\ input = <<>>
    /\ word = <<>>
    /\ all_onsets = <<>>
    /\ k = 0

\* lines 103-115
PrefixLoop ==
    /\ pc = "tokenized"
    /\ words_prefixes_separated' = prefix_loop(unique_words)
    /\ pc' = "prefixed"
    /\ UNCHANGED <<input, word, system, unique_words, hyphenated_words,
                   final_hyphenated_words, yiddish, exc, all_onsets, k>>

\* line 119: generate_yiddish_patterns(args.system)
CallGeneratePatterns ==
    /\ pc = "prefixed"
    /\ LET r == call_generate_yiddish_patterns(1)
       IN  /\ yiddish' = r.value
           /\ exc' = r.exc
           /\ pc' = IF r.exc = "none" THEN "hyphenate" ELSE "raised"
    /\ UNCHANGED <<input, word, system, unique_words, words_prefixes_separated,
                   hyphenated_words, final_hyphenated_words, all_onsets, k>>

\* lines 118-126
HyphenationLoop ==
    /\ pc = "hyphenate"
    /\ hyphenated_words' = hyphenation_loop(yiddish, words_prefixes_separated)
    /\ pc' = "hyphenated"
    /\ UNCHANGED <<input, word, system, unique_words, words_prefixes_separated,
                   final_hyphenated_words, yiddish, exc, all_onsets, k>>

\* lines 132-141
PostFilterLoop ==
    /\ pc = "hyphenated"
    /\ final_hyphenated_words' = post_filter_loop(hyphenated_words)
    /\ pc' = "filtered"
    /\ UNCHANGED <<input, word, system, unique_words, words_prefixes_separated,
                   hyphenated_words, yiddish, exc, all_onsets, k>>

\* line 142
WriteTeXfile ==
    /\ pc = "filtered"
    /\ pc' = "written"
    /\ UNCHANGED <<input, word, system, unique_words, words_prefixes_separated,
                   hyphenated_words, final_hyphenated_words, yiddish, exc,
                   all_onsets, k>>

\* the script as it runs
Init == InitPipeline
Next == PrefixLoop \/ CallGeneratePatterns
Spec == Init /\ [][Next]_vars

\* Lines 118-142 as code.  The call of line 119 raises, so the script never
\* runs them; they are checked from the state that line would leave with the
\* inventory that generate_yiddish_patterns() builds.
InitLoops ==
    /\ pc = "hyphenate"
    /\ system \in {"jacobs", "viler"}
    /\ unique_words \in {<<w>> : w \in PipelineWords}
    /\ words_prefixes_separated = prefix_loop(unique_words)
    /\ hyphenated_words = <<>>
    /\ final_hyphenated_words = <<>>
    /\ yiddish = generate_yiddish_patterns
    /\ exc = "none"
    /\ input = <<>>
    /\ word = <<>>
    /\ all_onsets = <<>>
    /\ k = 0

NextLoops == HyphenationLoop \/ PostFilterLoop \/ WriteTeXfile
SpecLoops == InitLoops /\ [][NextLoops]_vars

(***************************************************************************)
(* Properties                                                              *)
(***************************************************************************)

\* C1: once generate_yiddish_patterns has returned, for every onset skeleton
\* and every choice of one grapheme per label the returned onsets hold that
\* onset written in canonical graphemes (combine_chars of each grapheme)
\* joined by single spaces.
C1_OnsetsCanonical ==
    pc = "returned" =>
        \A i \in DOMAIN onsets :
            \A choice \in Range(expand_onset(onsets[i])) :
                JoinSpace([j \in 1..Len(choice) |-> combine_chars(choice[j])])
                    \in Range(yiddish.onsets)

\* the phoneme stream handed to add_syllable_boundaries for a raw word
StreamOf(w) ==
    CHOOSE p \in {replace_consonant_j_syllabic_nl(c) : c \in {combine_chars(w)}} : TRUE

\* the orthographic letter of a phoneme token
Orthographic(tok) ==
    IF tok = <<"j">> THEN <<"05D9">>
    ELSE IF tok = <<"0146">> THEN <<"05E0">>
    ELSE IF tok = <<"0145">> THEN <<"05DF">>
    ELSE IF tok = <<"013C">> THEN <<"05DC">>
    ELSE tok

\* the syllabification the maximum onset principle prescribes for a list of
\* tokens: before each nucleus after the first, a hyphen in front of the
\* longest suffix of the consonant run that is in the onsets
MaxOnsetString(patterns, t) ==
    LET nuclei == {i \in 1..Len(t) : t[i] \in Range(patterns.vowels)}
        later  == {i \in nuclei : \E j \in nuclei : j < i}
        prev(i) == CHOOSE j \in nuclei : j < i /\ \A j2 \in nuclei : j2 < i => j2 <= j
        legal(i) == {n \in 0..(i - prev(i) - 1) :
                        JoinSpace(SubSeq(t, i - n, i - 1)) \in Range(patterns.onsets)}
        longest(i) == CHOOSE n \in legal(i) : \A m \in legal(i) : m <= n
        cuts == {i - longest(i) : i \in later}
    IN  Concat([q \in 1..Len(t) |->
                   (IF q \in cuts THEN <<"-">> ELSE <<>>) \o Orthographic(t[q])])

\* whether every token of a segment is a vowel or a consonant
AllPhonemes(patterns, seg) ==
    \A tok \in Range(split_ws(seg, <<>>)) :
        tok \in Range(patterns.vowels) \cup Range(patterns.consonants)

\* C2: for a word whose segments hold only vowels and consonants, the
\* string add_syllable_boundaries returns is, segment by segment, the
\* segment's tokens with exactly one hyphen per nucleus after the first,
\* placed in front of the longest suffix of the consonant run that is a
\* member of the onsets; leading and trailing consonants stay in the first
\* and last syllable and no hyphen ends a segment.
C2_MaximumOnset ==
    pc = "syllabified" =>
        LET segs == re_split(StreamOf(input), <<>>)
        IN  (\A i \in DOMAIN segs :
                segs[i] \in punctuation_marks \/ AllPhonemes(yiddish, segs[i]))
            => word = Concat([i \in DOMAIN segs |->
                          IF segs[i] \in punctuation_marks THEN segs[i]
                          ELSE MaxOnsetString(yiddish, split_ws(segs[i], <<>>))])

\* C2 witness: a word has been syllabified in which a run of three
\* consonants between two nuclei was cut after its first consonant, the
\* two-consonant suffix being the longest legal onset.
C2_Witness ==
    /\ pc = "syllabified"
    /\ input = <<"05E2", "05D8", "05E9", "05D8", "05E2">>
    /\ word = <<"05E2", "05D8", "-", "05E9", "05D8", "05E2">>

\* C3: a segment with a token that is neither vowel nor consonant is
\* emitted unchanged, and every other segment and punctuation mark of the
\* word still appears, in order, in the returned string.
C3_FallbackKeepsOtherSegments ==
    pc = "syllabified" =>
        LET segs == re_split(StreamOf(input), <<>>)
        IN  word = Concat([i \in DOMAIN segs |->
                      IF segs[i] \in punctuation_marks THEN segs[i]
                      ELSE IF syllabify(yiddish, segs[i]).ok
                      THEN syllables_to_string(syllabify(yiddish, segs[i]).syllables)
                      ELSE segs[i]])

\* a word with its hyphens removed
Unhyphenated(w) == SelectSeq(w, LAMBDA c : c # "-")

C5_PrefixItselfUnsplit ==
    pc = "prefixed" =>
        \A i \in DOMAIN unique_words :
            unique_words[i] \in Range(prefixes)
                => words_prefixes_separated[i] = unique_words[i]

\* the entries a word starts with and is strictly longer than
ProperPrefixes(w) ==
    {i \in DOMAIN prefixes : StartsWith(w, prefixes[i]) /\ Len(w) > Len(prefixes[i])}

\* C6: a word that starts with and is strictly longer than some entry of the
\* prefix table leaves the prefix loop with a hyphen right after the first
\* such entry in table order.
C6_ProperExtensionSplit ==
    pc = "prefixed" =>
        \A i \in DOMAIN unique_words :
            LET w == unique_words[i]
                hits == ProperPrefixes(w)
            IN  hits # {} =>
                  LET f == CHOOSE f \in hits : \A g \in hits : f <= g
                  IN  words_prefixes_separated[i]
                          = prefixes[f] \o <<"-">> \o Drop(w, Len(prefixes[f]))

\* whether a raw word is written in the decomposed convention: no
\* presentation form, and no digraph spelled as two letters (two vovn, two
\* yudn, or vov and yud) unless the second letter carries its own mark, the
\* dagesh of melupm vov or the khirik of khirik yud
Precomposed == {"FB2E", "FB2F", "FB4C", "FB35", "FB1D", "FB1F", "FB3B", "FB44",
                "FB4E", "FB2B", "FB4A"}
OwnMark(c) == IF c = "05D5" THEN "05BC" ELSE "05B4"
DecomposedConvention(w) ==
    /\ \A i \in 1..Len(w) : w[i] \notin Precomposed
    /\ \A i \in 1..(Len(w) - 1) :
          (w[i] \in {"05D5", "05D9"} /\ w[i + 1] \in {"05D5", "05D9"}
           /\ ~(w[i] = "05D9" /\ w[i + 1] = "05D5"))
              => (i + 2 <= Len(w) /\ w[i + 2] = OwnMark(w[i + 1]))

\* C7: separate_chars(combine_chars(w)) = w for every word in the decomposed
\* convention.
C7_RoundTrip ==
    (pc = "roundtrip" /\ DecomposedConvention(input)) => word = input

\* the canonical vowel graphemes before which a yud is consonantal
YudVowels == {"FB2E", "FB2F", "05D5", "05E2", "FB1D", "FB1F", "05F2", "05F1"}

\* C9: in the phoneme stream of a canonicalized word, a yud has become "j"
\* exactly when the next grapheme is pasekh alef, komets alef, vov, ayin,
\* khirik yud, pasekh tsvey yudn, tsvey yudn or vov yud; every other yud is
\* still a yud.
C9_ConsonantalYud ==
    pc = "preprocessed" =>
        LET c == combine_chars(input)
            t == Concat(split_ws(word, <<>>))
        IN  /\ Len(t) = Len(c)
            /\ \A i \in 1..Len(c) :
                  c[i] = "05D9" =>
                      IF i < Len(c) /\ c[i + 1] \in YudVowels
                      THEN t[i] = "j" ELSE t[i] = "05D9"

\* the inventory of a system: generate_yiddish_patterns reads no selector
onsets_of_system(sys) == generate_yiddish_patterns.onsets

\* C8: the call of generate_yiddish_patterns with the system selector
\* returns, and the inventories of jacobs and viler differ.
C8_SelectorAccepted ==
    pc \in {"hyphenate", "raised"} =>
        /\ exc = "none"
        /\ onsets_of_system("jacobs") # onsets_of_system("viler")

\* the canonical graphemes before the first and after the last hyphen
LeadFragment(w) == SubSeq(combine_chars(w), 1, index_hyphen(combine_chars(w)))
TailFragment(w) == Drop(combine_chars(w), rindex_hyphen(combine_chars(w)) + 1)

====
